---- MODULE Spec2Model ----
(***************************************************************************)
(* A model of go-ebay (src/ebay.go): the URL builder (buildSoldURL,        *)
(* buildSearchURL, buildURL) and the two public operations                 *)
(* FindItemsByKeywords and FindSoldItems.                                  *)
(*                                                                         *)
(* Strings are sequences of one-character strings, so that escaping,       *)
(* sorting of keys and parsing of a query string are computed character by *)
(* character as net/url computes them.  A response body is the sequence of *)
(* tokens encoding/xml's Decoder yields for it.                            *)
(***************************************************************************)
EXTENDS Integers, Sequences, FiniteSets, TLC

VARIABLES
    ApplicationID,   \* e.ApplicationID
    pc,              \* position of the running call
    op,              \* operationName of the running call
    globalID,        \* argument globalID
    keywords,        \* argument keywords
    entriesPerPage,  \* argument entriesPerPage
    binOnly,         \* argument binOnly (FindItemsByKeywords only)
    url,             \* local url, as returned by buildSearchURL / buildSoldURL
    gets,            \* number of e.HTTPRequest.Get calls issued by the running call
    body,            \* local body returned by Get
    statusCode,      \* local statusCode returned by Get
    geterr,          \* error returned by Get (TRUE: the transport failed)
    response,        \* the envelope returned to the caller
    err              \* the error returned to the caller

vars == <<ApplicationID, pc, op, globalID, keywords, entriesPerPage, binOnly,
          url, gets, body, statusCode, geterr, response, err>>

-----------------------------------------------------------------------------
(* Bounds of the model.                                                    *)

\* longest keyword string drawn as an input
MaxKeywordLen == 1
\* largest absolute value of the page sizes drawn as inputs
MaxPageSize == 10
\* largest number of item elements in a response body
MaxItems == 1

-----------------------------------------------------------------------------
(* Characters: printable ASCII, in byte order.                             *)

Ascii == <<" ", "!", "\"", "#", "$", "%", "&", "'", "(", ")", "*", "+", ",", "-", ".", "/", "0", "1", "2", "3", "4", "5", "6", "7", "8", "9", ":", ";", "<", "=", ">", "?", "@", "A", "B", "C", "D", "E", "F", "G", "H", "I", "J", "K", "L", "M", "N", "O", "P", "Q", "R", "S", "T", "U", "V", "W", "X", "Y", "Z", "[", "\\", "]", "^", "_", "grave", "a", "b", "c", "d", "e", "f", "g", "h", "i", "j", "k", "l", "m", "n", "o", "p", "q", "r", "s", "t", "u", "v", "w", "x", "y", "z", "{", "|", "}", "~">>

Char == {Ascii[i] : i \in 1..Len(Ascii)}

\* the byte value of a character
Ord == [c \in Char |-> 31 + CHOOSE i \in 1..Len(Ascii) : Ascii[i] = c]

\* the character of a byte value
Chr(n) == Ascii[n - 31]

upperhex == <<"0", "1", "2", "3", "4", "5", "6", "7", "8", "9", "A", "B", "C", "D", "E", "F">>

\* strings.Compare(a, b) < 0: byte-wise lexicographic order, as sort.Strings uses
RECURSIVE LessFrom(_, _, _)
LessFrom(a, b, i) ==
    IF i > Len(b) THEN FALSE
    ELSE IF i > Len(a) THEN TRUE
    ELSE IF a[i] # b[i] THEN Ord[a[i]] < Ord[b[i]]
    ELSE LessFrom(a, b, i + 1)

Less(a, b) == LessFrom(a, b, 1)

\* index of the first c in s at or after position i, 0 when there is none
RECURSIVE IndexFrom(_, _, _)
IndexFrom(s, c, i) ==
    IF i > Len(s) THEN 0
    ELSE IF s[i] = c THEN i
    ELSE IndexFrom(s, c, i + 1)

-----------------------------------------------------------------------------
(* strconv.Itoa                                                            *)

RECURSIVE FormatNat(_)
FormatNat(n) ==
    IF n < 10 THEN <<Chr(48 + n)>>
    ELSE FormatNat(n \div 10) \o <<Chr(48 + (n % 10))>>

Itoa(n) == IF n < 0 THEN <<"-">> \o FormatNat(0 - n) ELSE FormatNat(n)

-----------------------------------------------------------------------------
(* net/url: QueryEscape, Values.Add, Values.Encode, Parse, URL.String      *)

\* shouldEscape(c, encodeQueryComponent): everything but the unreserved characters
shouldEscape(c) ==
    ~ (   (Ord[c] >= 97 /\ Ord[c] <= 122)
       \/ (Ord[c] >= 65 /\ Ord[c] <= 90)
       \/ (Ord[c] >= 48 /\ Ord[c] <= 57)
       \/ c \in {"-", "_", ".", "~"} )

\* what escape(s, encodeQueryComponent) writes for one character of s
escapeChar ==
    [c \in Char |->
        IF c = " " THEN <<"+">>
        ELSE IF shouldEscape(c)
             THEN <<"%", upperhex[(Ord[c] \div 16) + 1], upperhex[(Ord[c] % 16) + 1]>>
             ELSE <<c>>]

RECURSIVE escapeFrom(_, _)
escapeFrom(s, i) ==
    IF i > Len(s) THEN <<>> ELSE escapeChar[s[i]] \o escapeFrom(s, i + 1)

\* no escaping at all
QueryEscape_none(s) == s

QueryEscape(s) == escapeFrom(s, 1)

\* url.Values{}: a map from keys to the list of their values
EmptyValues == << >>

\* Values.Add(key, value): v[key] = append(v[key], value)
Add(v, key, value) ==
    IF key \in DOMAIN v
    THEN [v EXCEPT ![key] = Append(@, value)]
    ELSE [k \in DOMAIN v \cup {key} |-> IF k = key THEN <<value>> ELSE v[k]]

\* keys, sorted, with k inserted at its place
RECURSIVE insertKey(_, _, _)
insertKey(keys, k, i) ==
    IF i > Len(keys) THEN Append(keys, k)
    ELSE IF Less(k, keys[i])
         THEN SubSeq(keys, 1, i - 1) \o <<k>> \o SubSeq(keys, i, Len(keys))
         ELSE insertKey(keys, k, i + 1)

\* the keys of a map, sorted (slices.Sort in Values.Encode)
RECURSIVE SortKeys(_)
SortKeys(S) ==
    IF S = {} THEN <<>>
    ELSE LET k == CHOOSE x \in S : TRUE
         IN  insertKey(SortKeys(S \ {k}), k, 1)

RECURSIVE encodeValues(_, _, _, _)
encodeValues(buf, keyEscaped, vs, j) ==
    IF j > Len(vs) THEN buf
    ELSE encodeValues((IF Len(buf) > 0 THEN buf \o <<"&">> ELSE buf)
                          \o keyEscaped \o <<"=">> \o QueryEscape(vs[j]),
                      keyEscaped, vs, j + 1)

RECURSIVE encodeKeys(_, _, _, _)
encodeKeys(buf, v, keys, i) ==
    IF i > Len(keys) THEN buf
    ELSE encodeKeys(encodeValues(buf, QueryEscape(keys[i]), v[keys[i]], 1),
                    v, keys, i + 1)

\* Values.Encode: "bar=baz&foo=quux", sorted by key
Encode(v) == encodeKeys(<<>>, v, SortKeys(DOMAIN v), 1)

\* the part of s before the first sep and the part after it (strings.Cut)
Cut(s, sep) ==
    LET i == IndexFrom(s, sep, 1)
    IN  IF i = 0 THEN [before |-> s, after |-> <<>>, found |-> FALSE]
        ELSE [before |-> SubSeq(s, 1, i - 1), after |-> SubSeq(s, i + 1, Len(s)),
              found |-> TRUE]

\* url.Parse of an absolute URL "scheme://host/path?query"; a blank or a
\* missing scheme is an error
Parse(rawurl) ==
    LET q      == Cut(rawurl, "?")
        colon  == IndexFrom(q.before, ":", 1)
        rest   == SubSeq(q.before, colon + 3, Len(q.before))
        slash  == IndexFrom(rest, "/", 1)
    IN  IF \/ colon <= 1
           \/ IndexFrom(rawurl, " ", 1) # 0
           \/ SubSeq(q.before, colon + 1, colon + 2) # <<"/", "/">>
        THEN [u |-> [Scheme |-> <<>>, Host |-> <<>>, Path |-> <<>>, RawQuery |-> <<>>],
              err |-> TRUE]
        ELSE [u |-> [Scheme   |-> SubSeq(q.before, 1, colon - 1),
                     Host     |-> IF slash = 0 THEN rest ELSE SubSeq(rest, 1, slash - 1),
                     Path     |-> IF slash = 0 THEN <<>> ELSE SubSeq(rest, slash, Len(rest)),
                     RawQuery |-> q.after],
              err |-> FALSE]

\* URL.String: scheme://host/path, and ?query when the query is not empty
String(u) ==
    u.Scheme \o <<":", "/", "/">> \o u.Host \o u.Path
      \o (IF u.RawQuery # <<>> THEN <<"?">> \o u.RawQuery ELSE <<>>)

-----------------------------------------------------------------------------
(* The constants of src/ebay.go                                            *)

GLOBAL_ID_EBAY_US == <<"E", "B", "A", "Y", "-", "U", "S">>
GLOBAL_ID_EBAY_FR == <<"E", "B", "A", "Y", "-", "F", "R">>
GLOBAL_ID_EBAY_DE == <<"E", "B", "A", "Y", "-", "D", "E">>
GLOBAL_ID_EBAY_IT == <<"E", "B", "A", "Y", "-", "I", "T">>
GLOBAL_ID_EBAY_ES == <<"E", "B", "A", "Y", "-", "E", "S">>

test_application_id == <<"y", "o", "u", "r", "_", "a", "p", "p", "l", "i", "c", "a", "t", "i", "o", "n", "_", "i", "d", "_", "h", "e", "r", "e">>

\* "http://svcs.ebay.com/services/search/FindingService/v1"
Endpoint == <<"h", "t", "t", "p", ":", "/", "/", "s", "v", "c", "s", ".", "e", "b", "a", "y", ".", "c", "o", "m", "/", "s", "e", "r", "v", "i", "c", "e", "s", "/", "s", "e", "a", "r", "c", "h", "/", "F", "i", "n", "d", "i", "n", "g", "S", "e", "r", "v", "i", "c", "e", "/", "v", "1">>

\* "findCompletedItems", "findItemsByKeywords"
findCompletedItems  == <<"f", "i", "n", "d", "C", "o", "m", "p", "l", "e", "t", "e", "d", "I", "t", "e", "m", "s">>
findItemsByKeywords == <<"f", "i", "n", "d", "I", "t", "e", "m", "s", "B", "y", "K", "e", "y", "w", "o", "r", "d", "s">>

\* "itemFilter(N).name", "itemFilter(N).value(M)"
itemFilterName(n)     == <<"i", "t", "e", "m", "F", "i", "l", "t", "e", "r", "(">> \o Itoa(n) \o <<")", ".", "n", "a", "m", "e">>
itemFilterValue(n, m) == <<"i", "t", "e", "m", "F", "i", "l", "t", "e", "r", "(">> \o Itoa(n) \o <<")", ".", "v", "a", "l", "u", "e", "(">> \o Itoa(m) \o <<")">>

KeyOperationName == <<"O", "P", "E", "R", "A", "T", "I", "O", "N", "-", "N", "A", "M", "E">>
KeyServiceVersion == <<"S", "E", "R", "V", "I", "C", "E", "-", "V", "E", "R", "S", "I", "O", "N">>
KeySecurityAppName == <<"S", "E", "C", "U", "R", "I", "T", "Y", "-", "A", "P", "P", "N", "A", "M", "E">>
KeyGlobalID == <<"G", "L", "O", "B", "A", "L", "-", "I", "D">>
KeyResponseDataFormat == <<"R", "E", "S", "P", "O", "N", "S", "E", "-", "D", "A", "T", "A", "-", "F", "O", "R", "M", "A", "T">>
KeyRestPayload == <<"R", "E", "S", "T", "-", "P", "A", "Y", "L", "O", "A", "D">>
KeyKeywords == <<"k", "e", "y", "w", "o", "r", "d", "s">>
KeyEntriesPerPage == <<"p", "a", "g", "i", "n", "a", "t", "i", "o", "n", "I", "n", "p", "u", "t", ".", "e", "n", "t", "r", "i", "e", "s", "P", "e", "r", "P", "a", "g", "e">>

-----------------------------------------------------------------------------
(* The URL builder                                                         *)

\* a filter set without the SoldItemsOnly filter
SoldFilters_conditionOnly ==
    Add(Add(Add(EmptyValues,
        itemFilterName(0), <<"C", "o", "n", "d", "i", "t", "i", "o", "n">>),
        itemFilterValue(0, 0), <<"U", "s", "e", "d">>),
        itemFilterValue(0, 1), <<"U", "n", "s", "p", "e", "c", "i", "f", "i", "e", "d">>)

\* the filter set buildSoldURL builds
SoldFilters ==
    Add(Add(Add(Add(Add(EmptyValues,
        itemFilterName(0), <<"C", "o", "n", "d", "i", "t", "i", "o", "n">>),
        itemFilterValue(0, 0), <<"U", "s", "e", "d">>),
        itemFilterValue(0, 1), <<"U", "n", "s", "p", "e", "c", "i", "f", "i", "e", "d">>),
        itemFilterName(1), <<"S", "o", "l", "d", "I", "t", "e", "m", "s", "O", "n", "l", "y">>),
        itemFilterValue(1, 0), <<"t", "r", "u", "e">>)

\* a filter set that adds FixedPrice and Auction when binOnly is set, not when it is not
SearchFilters_inverted(bin) ==
    LET f == Add(Add(EmptyValues,
                 itemFilterName(0), <<"L", "i", "s", "t", "i", "n", "g", "T", "y", "p", "e">>),
                 itemFilterValue(0, 0), <<"A", "u", "c", "t", "i", "o", "n", "W", "i", "t", "h", "B", "I", "N">>)
    IN  IF bin
        THEN Add(Add(f, itemFilterValue(0, 1), <<"F", "i", "x", "e", "d", "P", "r", "i", "c", "e">>),
                        itemFilterValue(0, 2), <<"A", "u", "c", "t", "i", "o", "n">>)
        ELSE f

\* the filter set buildSearchURL builds
SearchFilters(bin) ==
    LET f == Add(Add(EmptyValues,
                 itemFilterName(0), <<"L", "i", "s", "t", "i", "n", "g", "T", "y", "p", "e">>),
                 itemFilterValue(0, 0), <<"A", "u", "c", "t", "i", "o", "n", "W", "i", "t", "h", "B", "I", "N">>)
    IN  IF ~bin
        THEN Add(Add(f, itemFilterValue(0, 1), <<"F", "i", "x", "e", "d", "P", "r", "i", "c", "e">>),
                        itemFilterValue(0, 2), <<"A", "u", "c", "t", "i", "o", "n">>)
        ELSE f

\* the orders in which "for key := range filters" may visit the keys of a map
RangeOrders(filters) ==
    LET n == Cardinality(DOMAIN filters)
    IN  {o \in [1..n -> DOMAIN filters] : \A i, j \in 1..n : o[i] = o[j] => i = j}

\* for _, val := range filters[key] { params.Add(key, val) }
RECURSIVE addAll(_, _, _, _)
addAll(params, key, vals, j) ==
    IF j > Len(vals) THEN params
    ELSE addAll(Add(params, key, vals[j]), key, vals, j + 1)

\* a copy that stops after the first key visited
copyFilters_firstKey(params, filters, order, i) ==
    IF Len(order) = 0 THEN params
    ELSE addAll(params, order[1], filters[order[1]], 1)

\* for key := range filters { ... }, the keys visited in the order given
RECURSIVE copyFilters(_, _, _, _)
copyFilters(params, filters, order, i) ==
    IF i > Len(order) THEN params
    ELSE copyFilters(addAll(params, order[i], filters[order[i]], 1),
                     filters, order, i + 1)

\* the fixed parameters of buildURL, lines 111-119
FixedParams(appID, gid, kw, operationName, epp) ==
    Add(Add(Add(Add(Add(Add(Add(Add(EmptyValues,
        KeyOperationName, operationName),
        KeyServiceVersion, <<"1", ".", "0", ".", "0">>),
        KeySecurityAppName, appID),
        KeyGlobalID, gid),
        KeyResponseDataFormat, <<"X", "M", "L">>),
        KeyRestPayload, <<>>),
        KeyKeywords, kw),
        KeyEntriesPerPage, Itoa(epp))

\* u, err := url.Parse("http://svcs.ebay.com/services/search/FindingService/v1")
ParsedEndpoint == Parse(Endpoint)

\* the filters written to the query as they are visited, after the encoded
\* fixed parameters, instead of being added to params
RECURSIVE appendFilters(_, _, _, _)
appendFilters(query, filters, order, i) ==
    IF i > Len(order) THEN query
    ELSE appendFilters(query \o <<"&">> \o QueryEscape(order[i]) \o <<"=">>
                             \o QueryEscape(filters[order[i]][1]),
                       filters, order, i + 1)

buildURL_appended(appID, gid, kw, operationName, epp, filters, order) ==
    LET p == ParsedEndpoint
        q == appendFilters(Encode(FixedParams(appID, gid, kw, operationName, epp)),
                           filters, order, 1)
    IN  IF p.err THEN [url |-> <<>>, err |-> TRUE]
        ELSE [url |-> String([p.u EXCEPT !.RawQuery = q]), err |-> FALSE]

\* buildURL; order is the order in which the range over filters visits its keys
buildURL(appID, gid, kw, operationName, epp, filters, order) ==
    LET p      == ParsedEndpoint
        params == copyFilters(FixedParams(appID, gid, kw, operationName, epp),
                              filters, order, 1)
    IN  IF p.err THEN [url |-> <<>>, err |-> TRUE]
        ELSE [url |-> String([p.u EXCEPT !.RawQuery = Encode(params)]), err |-> FALSE]

buildSoldURL(appID, gid, kw, epp, order) ==
    buildURL(appID, gid, kw, findCompletedItems, epp, SoldFilters, order)

buildSearchURL(appID, gid, kw, epp, bin, order) ==
    buildURL(appID, gid, kw, findItemsByKeywords, epp, SearchFilters(bin), order)

-----------------------------------------------------------------------------
(* encoding/xml: a body is the sequence of tokens Decoder.Token yields for *)
(* it.  "bad" stands for the place where the body stops being well-formed  *)
(* XML (a syntax error, a mismatched end tag, an unexpected end of input): *)
(* Token returns an error there.                                           *)

StartElement(n) == [k |-> "start", v |-> n]
EndElement(n)   == [k |-> "end", v |-> n]
CharData(d)     == [k |-> "text", v |-> d]
SyntaxError     == [k |-> "bad", v |-> ""]

\* the struct types of src/ebay.go, with the path each field is read from
Fields(typ) ==
    CASE typ = "Item" ->
           << [field |-> "ItemID",        parents |-> <<>>,                 name |-> "itemId",              type |-> "string"],
              [field |-> "Title",         parents |-> <<>>,                 name |-> "title",               type |-> "string"],
              [field |-> "Location",      parents |-> <<>>,                 name |-> "location",            type |-> "string"],
              [field |-> "CurrentPrice",  parents |-> <<"sellingStatus">>,  name |-> "currentPrice",        type |-> "float64"],
              [field |-> "ShippingPrice", parents |-> <<"shippingInfo">>,   name |-> "shippingServiceCost", type |-> "float64"],
              [field |-> "BinPrice",      parents |-> <<"listingInfo">>,    name |-> "buyItNowPrice",       type |-> "float64"],
              [field |-> "ShipsTo",       parents |-> <<"shippingInfo">>,   name |-> "shipToLocations",     type |-> "[]string"],
              [field |-> "ListingURL",    parents |-> <<>>,                 name |-> "viewItemURL",         type |-> "string"],
              [field |-> "ImageURL",      parents |-> <<>>,                 name |-> "galleryURL",          type |-> "string"],
              [field |-> "Site",          parents |-> <<>>,                 name |-> "globalId",            type |-> "string"],
              [field |-> "EndTime",       parents |-> <<"listingInfo">>,    name |-> "endTime",             type |-> "time.Time"] >>
      [] typ \in {"FindItemsResponse", "FindCompletedItemsResponse"} ->
           << [field |-> "Items",     parents |-> <<"searchResult">>, name |-> "item",      type |-> "[]Item"],
              [field |-> "Timestamp", parents |-> <<>>,               name |-> "timestamp", type |-> "string"] >>
      [] typ = "ErrorMessage" ->
           << [field |-> "Error", parents |-> <<>>, name |-> "error", type |-> "Error"] >>
      [] typ = "Error" ->
           << [field |-> "ErrorID",   parents |-> <<>>, name |-> "errorId",   type |-> "string"],
              [field |-> "Domain",    parents |-> <<>>, name |-> "domain",    type |-> "string"],
              [field |-> "Severity",  parents |-> <<>>, name |-> "severity",  type |-> "string"],
              [field |-> "Category",  parents |-> <<>>, name |-> "category",  type |-> "string"],
              [field |-> "Message",   parents |-> <<>>, name |-> "message",   type |-> "string"],
              [field |-> "SubDomain", parents |-> <<>>, name |-> "subdomain", type |-> "string"] >>

\* the element name an XMLName field asks for, "" for a struct without one
XMLName(typ) ==
    CASE typ = "FindItemsResponse"          -> "findItemsByKeywordsResponse"
      [] typ = "FindCompletedItemsResponse" -> "findCompletedItemsResponse"
      [] typ = "ErrorMessage"               -> "errorMessage"
      [] OTHER                              -> ""

IsStruct(typ) == typ \in {"Item", "FindItemsResponse", "FindCompletedItemsResponse",
                          "ErrorMessage", "Error"}
IsSlice(typ)  == typ \in {"[]Item", "[]string"}
ElemType(typ) == IF typ = "[]Item" THEN "Item" ELSE "string"

\* the zero values; a float64 and a time.Time are kept as the text they were
\* parsed from
ZeroItem ==
    [ItemID |-> "", Title |-> "", Location |-> "", CurrentPrice |-> "0",
     ShippingPrice |-> "0", BinPrice |-> "0", ShipsTo |-> <<>>, ListingURL |-> "",
     ImageURL |-> "", Site |-> "", EndTime |-> "0001-01-01T00:00:00Z"]

ZeroError ==
    [ErrorID |-> "", Domain |-> "", Severity |-> "", Category |-> "", Message |-> "",
     SubDomain |-> ""]

ZeroResponse == [XMLName |-> "", Items |-> <<>>, Timestamp |-> ""]

ZeroErrorMessage == [XMLName |-> "", Error |-> ZeroError]

Zero(typ) ==
    CASE typ = "Item"         -> ZeroItem
      [] typ = "Error"        -> ZeroError
      [] typ = "ErrorMessage" -> ZeroErrorMessage
      [] typ \in {"FindItemsResponse", "FindCompletedItemsResponse"} -> ZeroResponse
      [] typ = "float64"      -> "0"
      [] typ = "time.Time"    -> "0001-01-01T00:00:00Z"
      [] IsSlice(typ)         -> <<>>
      [] OTHER                -> ""

\* the texts strconv.ParseFloat and Time.UnmarshalText accept, among those a
\* body of the model holds
FloatTexts == {"10.5", "0"}
TimeTexts  == {"2012-03-01T10:00:00.000Z"}

\* Decoder.Skip, after a start element was read: to past its end element
RECURSIVE Skip(_, _)
Skip(toks, i) ==
    IF i > Len(toks) \/ toks[i].k = "bad" THEN [pos |-> i, err |-> "syntax"]
    ELSE IF toks[i].k = "start"
         THEN LET r == Skip(toks, i + 1)
              IN  IF r.err # "" THEN r ELSE Skip(toks, r.pos)
    ELSE IF toks[i].k = "end" THEN [pos |-> i + 1, err |-> ""]
    ELSE Skip(toks, i + 1)

\* the loop of Decoder.unmarshal for a value that is no struct: the character
\* data of the element is collected, its child elements are skipped
RECURSIVE readData(_, _, _)
readData(toks, i, data) ==
    IF i > Len(toks) \/ toks[i].k = "bad" THEN [pos |-> i, err |-> "syntax", val |-> data]
    ELSE IF toks[i].k = "start"
         THEN LET r == Skip(toks, i + 1)
              IN  IF r.err # "" THEN [pos |-> r.pos, err |-> r.err, val |-> data]
                  ELSE readData(toks, r.pos, data)
    ELSE IF toks[i].k = "end" THEN [pos |-> i + 1, err |-> "", val |-> data]
    ELSE readData(toks, i + 1, data \o toks[i].v)

\* copyValue: the collected character data stored into a value of a basic type
copyValue(typ, old, data) ==
    IF typ = "float64"
    THEN IF data = "" THEN [err |-> "", val |-> "0"]
         ELSE IF data \in FloatTexts THEN [err |-> "", val |-> data]
         ELSE [err |-> "strconv.ParseFloat", val |-> old]
    ELSE [err |-> "", val |-> data]

\* the first field of typ that the element named name under parents is (a
\* perfect match) or leads to (a prefix): the loop of Decoder.unmarshalPath
RECURSIVE findField(_, _, _, _)
findField(fields, k, parents, name) ==
    IF k > Len(fields) THEN [how |-> "none", k |-> 0]
    ELSE LET f == fields[k]
         IN  IF \/ Len(f.parents) < Len(parents)
                \/ \E j \in 1..Len(parents) : parents[j] # f.parents[j]
             THEN findField(fields, k + 1, parents, name)
             ELSE IF Len(f.parents) = Len(parents) /\ f.name = name
                  THEN [how |-> "match", k |-> k]
             ELSE IF Len(f.parents) > Len(parents) /\ f.parents[Len(parents) + 1] = name
                  THEN [how |-> "prefix", k |-> k]
             ELSE findField(fields, k + 1, parents, name)

RECURSIVE unmarshal(_, _, _, _, _)
RECURSIVE unmarshalPath(_, _, _, _, _, _)
RECURSIVE pathLoop(_, _, _, _, _)
RECURSIVE structLoop(_, _, _, _)

\* Decoder.unmarshal(val, start): the element whose start element, named name,
\* was the token before position i, read into val of type typ.
\* [pos, err, val]: val is what the value holds afterwards, also on an error
unmarshal(toks, i, val, typ, name) ==
    IF typ = "time.Time"
    THEN \* unmarshalTextInterface
         LET r == readData(toks, i, "")
         IN  IF r.err # "" THEN [pos |-> r.pos, err |-> r.err, val |-> val]
             ELSE IF r.val \in TimeTexts THEN [pos |-> r.pos, err |-> "", val |-> r.val]
             ELSE [pos |-> r.pos, err |-> "time.Parse", val |-> val]
    ELSE IF IsSlice(typ)
    THEN \* grow the slice, read the element into the new place, and on an
         \* error cut the slice back: v.SetLen(n)
         LET r == unmarshal(toks, i, Zero(ElemType(typ)), ElemType(typ), name)
         IN  IF r.err # "" THEN [pos |-> r.pos, err |-> r.err, val |-> val]
             ELSE [pos |-> r.pos, err |-> "", val |-> Append(val, r.val)]
    ELSE IF IsStruct(typ)
    THEN IF XMLName(typ) # "" /\ XMLName(typ) # name
         THEN [pos |-> i, err |-> "expected element type", val |-> val]
         ELSE structLoop(toks, i,
                         IF XMLName(typ) # "" THEN [val EXCEPT !.XMLName = name] ELSE val,
                         typ)
    ELSE LET r == readData(toks, i, "")
             c == copyValue(typ, val, r.val)
         IN  IF r.err # "" THEN [pos |-> r.pos, err |-> r.err, val |-> val]
             ELSE [pos |-> r.pos, err |-> c.err, val |-> c.val]

\* the token loop of Decoder.unmarshal for a struct
structLoop(toks, i, sv, typ) ==
    IF i > Len(toks) \/ toks[i].k = "bad" THEN [pos |-> i, err |-> "syntax", val |-> sv]
    ELSE IF toks[i].k = "start"
         THEN LET p == unmarshalPath(toks, i + 1, sv, typ, <<>>, toks[i].v)
              IN  IF p.err # "" THEN [pos |-> p.pos, err |-> p.err, val |-> p.val]
                  ELSE IF ~p.consumed
                       THEN LET s == Skip(toks, i + 1)
                            IN  IF s.err # "" THEN [pos |-> s.pos, err |-> s.err, val |-> sv]
                                ELSE structLoop(toks, s.pos, sv, typ)
                       ELSE structLoop(toks, p.pos, p.val, typ)
    ELSE IF toks[i].k = "end" THEN [pos |-> i + 1, err |-> "", val |-> sv]
    ELSE structLoop(toks, i + 1, sv, typ)

\* Decoder.unmarshalPath: the element named name, found under parents
unmarshalPath(toks, i, sv, typ, parents, name) ==
    LET fields == Fields(typ)
        m      == findField(fields, 1, parents, name)
        f      == fields[m.k]
    IN  IF m.how = "none" THEN [consumed |-> FALSE, pos |-> i, err |-> "", val |-> sv]
        ELSE IF m.how = "match"
             THEN LET r == unmarshal(toks, i, sv[f.field], f.type, name)
                  IN  [consumed |-> TRUE, pos |-> r.pos, err |-> r.err,
                       val |-> [sv EXCEPT ![f.field] = r.val]]
        ELSE pathLoop(toks, i, sv, typ, SubSeq(f.parents, 1, Len(parents) + 1))

\* the token loop of Decoder.unmarshalPath below an element that is a prefix
pathLoop(toks, i, sv, typ, parents) ==
    IF i > Len(toks) \/ toks[i].k = "bad"
    THEN [consumed |-> TRUE, pos |-> i, err |-> "syntax", val |-> sv]
    ELSE IF toks[i].k = "start"
         THEN LET p == unmarshalPath(toks, i + 1, sv, typ, parents, toks[i].v)
              IN  IF p.err # "" THEN [p EXCEPT !.consumed = TRUE]
                  ELSE IF ~p.consumed
                       THEN LET s == Skip(toks, i + 1)
                            IN  IF s.err # ""
                                THEN [consumed |-> TRUE, pos |-> s.pos, err |-> s.err, val |-> sv]
                                ELSE pathLoop(toks, s.pos, sv, typ, parents)
                       ELSE pathLoop(toks, p.pos, p.val, typ, parents)
    ELSE IF toks[i].k = "end"
         THEN [consumed |-> TRUE, pos |-> i + 1, err |-> "", val |-> sv]
    ELSE pathLoop(toks, i + 1, sv, typ, parents)

\* the first start element at or after position i: Decoder.unmarshal called
\* without a start element reads tokens until it finds one
RECURSIVE firstStart(_, _)
firstStart(toks, i) ==
    IF i > Len(toks) THEN [pos |-> 0, err |-> "EOF"]
    ELSE IF toks[i].k = "bad" THEN [pos |-> 0, err |-> "syntax"]
    ELSE IF toks[i].k = "start" THEN [pos |-> i, err |-> ""]
    ELSE firstStart(toks, i + 1)

\* xml.Unmarshal(data, &v) for v of type typ holding val: [err, val].  Only
\* the first element of data is read.
Unmarshal(toks, val, typ) ==
    LET s == firstStart(toks, 1)
    IN  IF s.err # "" THEN [err |-> s.err, val |-> val]
        ELSE LET r == unmarshal(toks, s.pos + 1, val, typ, toks[s.pos].v)
             IN  [err |-> r.err, val |-> r.val]

-----------------------------------------------------------------------------
(* The two public operations.  Lines 163-179 of FindItemsByKeywords and    *)
(* lines 191-208 of FindSoldItems are the same code for two envelope types.*)

NilError == [kind |-> "nil", msg |-> ""]

StatusOK == 200

\* a status test that takes every status below 400 for a success
statusNotOK_below400(status) == status >= 400

\* if statusCode != 200
statusNotOK(status) == status # StatusOK

\* an error made of the fault's identifier instead of its message
faultError_errorID(em) == [kind |-> "errors.New", msg |-> em.Error.ErrorID]

\* errors.New(em.Error.Message)
faultError(em) == [kind |-> "errors.New", msg |-> em.Error.Message]

\* what a call returns once Get has returned (body, statusCode, err):
\* the envelope of type typ and the error
reply(typ, getFailed, status, data) ==
    IF getFailed
    THEN [response |-> Zero(typ), err |-> [kind |-> "transport", msg |-> ""]]
    ELSE IF statusNotOK(status)
         THEN LET em == Unmarshal(data, ZeroErrorMessage, "ErrorMessage")
              IN  IF em.err # ""
                  THEN [response |-> Zero(typ), err |-> [kind |-> "xml", msg |-> em.err]]
                  ELSE [response |-> Zero(typ), err |-> faultError(em.val)]
         ELSE LET r == Unmarshal(data, Zero(typ), typ)
              IN  IF r.err # ""
                  THEN [response |-> r.val, err |-> [kind |-> "xml", msg |-> r.err]]
                  ELSE [response |-> r.val, err |-> NilError]

\* the envelope type each operation declares for its response
ResponseType(o) ==
    IF o = "FindItemsByKeywords" THEN "FindItemsResponse" ELSE "FindCompletedItemsResponse"

-----------------------------------------------------------------------------
(* Inputs                                                                  *)

\* the characters keyword strings are drawn from: a letter, the separators of
\* a query string, and the characters escaping rewrites
KeywordChars == {"k", "&", "=", " ", "%", "+"}

RECURSIVE StringsUpTo(_, _)
StringsUpTo(S, n) ==
    IF n = 0 THEN {<<>>}
    ELSE LET shorter == StringsUpTo(S, n - 1)
         IN  shorter \cup {Append(s, c) : s \in shorter, c \in S}

Keywords == StringsUpTo(KeywordChars, MaxKeywordLen)

\* marketplace ids: one of the constants, and one that spells a parameter
GlobalIDs == {GLOBAL_ID_EBAY_US, <<"&", "k", "e", "y", "w", "o", "r", "d", "s", "=", "k">>}

PageSizes == {0 - MaxPageSize, 0, MaxPageSize}

\* the arguments of the calls of the two operations: those of
\* TestFindItemsByKeywords, and an empty keyword string
CallKeywords == {<<"D", "J", "M", " ", "9", "0", "0", ",", " ", "D", "J", "M", " ", "8", "5", "0">>, <<>>}
CallPageSize == 10

\* response bodies
Timestamp == "2012-03-01T10:00:00.000Z"
FaultMessages == {"Invalid keywords", ""}
Roots == {"findItemsByKeywordsResponse", "findCompletedItemsResponse"}

itemElement(k, price) ==
    << StartElement("item"),
         StartElement("itemId"), CharData(ToString(k)), EndElement("itemId"),
         StartElement("sellingStatus"),
           StartElement("currentPrice"), CharData(price), EndElement("currentPrice"),
         EndElement("sellingStatus"),
       EndElement("item") >>

RECURSIVE itemElements(_, _, _)
itemElements(k, n, lastPrice) ==
    IF k > n THEN <<>>
    ELSE itemElement(k, IF k = n THEN lastPrice ELSE "10.5")
           \o itemElements(k + 1, n, lastPrice)

\* a success envelope with n items, the last one priced lastPrice
SuccessBody(root, n, lastPrice) ==
    << StartElement(root),
         StartElement("ack"), CharData("Success"), EndElement("ack"),
         StartElement("timestamp"), CharData(Timestamp), EndElement("timestamp"),
         StartElement("searchResult") >>
      \o itemElements(1, n, lastPrice)
      \o << EndElement("searchResult"), EndElement(root) >>

\* a fault envelope with message m
FaultBody(m) ==
    << StartElement("errorMessage"),
         StartElement("error"),
           StartElement("errorId"), CharData("12"), EndElement("errorId"),
           StartElement("message"), CharData(m), EndElement("message"),
         EndElement("error"),
       EndElement("errorMessage") >>

\* the well-formed success envelopes of a root element
SuccessBodies(root) == {SuccessBody(root, n, "10.5") : n \in 0..MaxItems}

\* success-shaped, but a price is not a number
BadPriceBodies(root) == {SuccessBody(root, n, "n/a") : n \in 1..MaxItems}

FaultBodies == {FaultBody(m) : m \in FaultMessages}

\* a document that stops being well-formed at its k-th token, k up to one
\* past its end (text after the end of the root element)
MalformedAt(doc, k) == SubSeq(doc, 1, k - 1) \o <<SyntaxError>>

\* the bodies the transport may answer with: the well-formed ones, each of
\* them made malformed at every place, and the empty body
WellFormedBodies ==
    UNION {SuccessBodies(r) \cup BadPriceBodies(r) : r \in Roots} \cup FaultBodies

Bodies ==
    WellFormedBodies
      \cup UNION {{MalformedAt(d, k) : k \in 1..(Len(d) + 1)} : d \in WellFormedBodies}
      \cup {<<>>}

StatusCodes == {200, 201, 404}

-----------------------------------------------------------------------------
(* Spec: calls of FindItemsByKeywords and FindSoldItems on one client      *)

Init ==
    /\ ApplicationID = test_application_id
    /\ pc = "idle"
    /\ op = "none"
    /\ globalID = <<>>
    /\ keywords = <<>>
    /\ entriesPerPage = 0
    /\ binOnly = FALSE
    /\ url = <<>>
    /\ gets = 0
    /\ body = <<>>
    /\ statusCode = 0
    /\ geterr = FALSE
    /\ response = ZeroResponse
    /\ err = NilError

\* FindItemsByKeywords, lines 155-162: up to the call of Get
FindItemsByKeywords ==
    /\ pc = "idle"
    /\ \E kw \in CallKeywords, bin \in BOOLEAN :
       \E order \in RangeOrders(SearchFilters(bin)) :
         LET r == buildSearchURL(ApplicationID, GLOBAL_ID_EBAY_US, kw, CallPageSize,
                                 bin, order)
         IN  /\ globalID' = GLOBAL_ID_EBAY_US
             /\ keywords' = kw
             /\ entriesPerPage' = CallPageSize
             /\ binOnly' = bin
             /\ url' = r.url
             /\ pc' = IF r.err THEN "returned" ELSE "get"
             /\ err' = IF r.err THEN [kind |-> "url", msg |-> ""] ELSE NilError
    /\ op' = "FindItemsByKeywords"
    /\ response' = ZeroResponse
    /\ UNCHANGED <<ApplicationID, gets, body, statusCode, geterr>>

\* FindSoldItems, lines 184-190: up to the call of Get
FindSoldItems ==
    /\ pc = "idle"
    /\ \E kw \in CallKeywords :
       \E order \in RangeOrders(SoldFilters) :
         LET r == buildSoldURL(ApplicationID, GLOBAL_ID_EBAY_US, kw, CallPageSize, order)
         IN  /\ globalID' = GLOBAL_ID_EBAY_US
             /\ keywords' = kw
             /\ entriesPerPage' = CallPageSize
             /\ url' = r.url
             /\ pc' = IF r.err THEN "returned" ELSE "get"
             /\ err' = IF r.err THEN [kind |-> "url", msg |-> ""] ELSE NilError
    /\ op' = "FindSoldItems"
    /\ response' = ZeroResponse
    /\ UNCHANGED <<ApplicationID, binOnly, gets, body, statusCode, geterr>>

\* a Get that is tried again when the transport fails
Get_retry ==
    /\ pc = "get"
    /\ gets' = gets + 1
    /\ \/ /\ geterr' = TRUE
          /\ body' = <<>>
          /\ statusCode' = 0
          /\ pc' = IF gets < 2 THEN "get" ELSE "got"
       \/ /\ geterr' = FALSE
          /\ body' \in Bodies
          /\ statusCode' \in StatusCodes
          /\ pc' = "got"
    /\ UNCHANGED <<ApplicationID, op, globalID, keywords, entriesPerPage, binOnly, url,
                   response, err>>

\* body, statusCode, err := e.HTTPRequest.Get(url, headers): the transport
\* fails, or answers with some status code and some body
Get ==
    /\ pc = "get"
    /\ gets' = gets + 1
    /\ \/ /\ geterr' = TRUE
          /\ body' = <<>>
          /\ statusCode' = 0
       \/ /\ geterr' = FALSE
          /\ body' \in Bodies
          /\ statusCode' \in StatusCodes
    /\ pc' = "got"
    /\ UNCHANGED <<ApplicationID, op, globalID, keywords, entriesPerPage, binOnly, url,
                   response, err>>

\* FindItemsByKeywords, lines 164-179, and FindSoldItems, lines 192-208
Return ==
    /\ pc = "got"
    /\ LET r == reply(ResponseType(op), geterr, statusCode, body)
       IN  /\ response' = r.response
           /\ err' = r.err
    /\ pc' = "returned"
    /\ UNCHANGED <<ApplicationID, op, globalID, keywords, entriesPerPage, binOnly, url,
                   gets, body, statusCode, geterr>>

\* the caller has the result; the client is ready for its next call
NextCall ==
    /\ pc = "returned"
    /\ pc' = "idle"
    /\ op' = "none"
    /\ globalID' = <<>>
    /\ keywords' = <<>>
    /\ entriesPerPage' = 0
    /\ binOnly' = FALSE
    /\ url' = <<>>
    /\ gets' = 0
    /\ body' = <<>>
    /\ statusCode' = 0
    /\ geterr' = FALSE
    /\ response' = ZeroResponse
    /\ err' = NilError
    /\ UNCHANGED ApplicationID

Next == FindItemsByKeywords \/ FindSoldItems \/ Get \/ Return \/ NextCall

Spec == Init /\ [][Next]_vars

-----------------------------------------------------------------------------
(* SpecURL: the URL builder applied to every input                         *)

InitURL ==
    /\ ApplicationID = test_application_id
    /\ pc = "args"
    /\ op = "none"
    /\ globalID \in GlobalIDs
    /\ keywords \in Keywords
    /\ entriesPerPage \in PageSizes
    /\ binOnly = FALSE
    /\ url = <<>>
    /\ gets = 0
    /\ body = <<>>
    /\ statusCode = 0
    /\ geterr = FALSE
    /\ response = ZeroResponse
    /\ err = NilError

CallBuildSearchURL ==
    /\ pc = "args"
    /\ \E bin \in BOOLEAN : \E order \in RangeOrders(SearchFilters(bin)) :
         LET r == buildSearchURL(ApplicationID, globalID, keywords, entriesPerPage,
                                 bin, order)
         IN  /\ binOnly' = bin
             /\ url' = r.url
             /\ err' = IF r.err THEN [kind |-> "url", msg |-> ""] ELSE NilError
    /\ op' = "buildSearchURL"
    /\ pc' = "built"
    /\ UNCHANGED <<ApplicationID, globalID, keywords, entriesPerPage, gets, body,
                   statusCode, geterr, response>>

CallBuildSoldURL ==
    /\ pc = "args"
    /\ \E order \in RangeOrders(SoldFilters) :
         LET r == buildSoldURL(ApplicationID, globalID, keywords, entriesPerPage, order)
         IN  /\ url' = r.url
             /\ err' = IF r.err THEN [kind |-> "url", msg |-> ""] ELSE NilError
    /\ op' = "buildSoldURL"
    /\ pc' = "built"
    /\ UNCHANGED <<ApplicationID, globalID, keywords, entriesPerPage, binOnly, gets,
                   body, statusCode, geterr, response>>

NextURL == CallBuildSearchURL \/ CallBuildSoldURL

SpecURL == InitURL /\ [][NextURL]_vars

-----------------------------------------------------------------------------
(* Properties of the calls (Spec)                                          *)

\* the call has returned after a Get that the transport answered
Answered == pc = "returned" /\ gets = 1 /\ ~geterr

\* the root element of the envelope the running operation expects
OwnRoot == XMLName(ResponseType(op))

\* the call hands a decoded result to its caller: an envelope returned with
\* a nil error, or an envelope that holds items decoded from the body
ResultProduced == err = NilError \/ response.Items # <<>>

\* the call hands a fault to its caller
FaultProduced == err # NilError

\* C1: whenever the transport answers, a call produces exactly one of a
\* decoded result and a fault, never both and never neither, whatever the
\* status code and the body
C1_ExactlyOneOutcome == Answered => (ResultProduced # FaultProduced)

\* C2: a status other than 200 with a well-formed fault payload fails with
\* an error whose message is the payload's message field, and the envelope
\* returned holds no items and an empty timestamp
C2_UpstreamError ==
    \A m \in FaultMessages :
        (Answered /\ statusCode # 200 /\ body = FaultBody(m))
            => /\ err.kind = "errors.New"
               /\ err.msg = m
               /\ response.Items = <<>>
               /\ response.Timestamp = ""

C2_Witness ==
    /\ Answered
    /\ statusCode = 404
    /\ body = FaultBody("Invalid keywords")
    /\ err.msg = "Invalid keywords"

\* the body is a success envelope of the operation that stops being
\* well-formed at some token of its root element, or whose last price is not
\* a number
StopsInsideRoot(b) ==
    \/ b \in BadPriceBodies(OwnRoot)
    \/ \E d \in SuccessBodies(OwnRoot) \cup BadPriceBodies(OwnRoot) :
         \E k \in 1..Len(d) : b = MalformedAt(d, k)

\* C3: a status of 200 with a body that is malformed XML, or that does not
\* match the expected envelope, fails with a decode error, and the envelope
\* returned with the error holds no items; stated for the bodies that fail
\* inside the root element, those that become malformed after some items
\* were read among them
C3_NoPartialItems ==
    (Answered /\ statusCode = 200 /\ StopsInsideRoot(body))
        => /\ err.kind = "xml"
           /\ response.Items = <<>>

\* C4: a result with no error is returned if and only if the transport
\* succeeded with status 200 and the body decodes as the operation's own
\* success envelope; the status code alone chooses the path: a fault payload
\* under 200 is a decode error, a success payload under another status is
\* never a result
C4_StatusChoosesPath ==
    pc = "returned" =>
        /\ err = NilError <=>
             /\ gets = 1
             /\ ~geterr
             /\ statusCode = 200
             /\ Unmarshal(body, ZeroResponse, ResponseType(op)).err = ""
        /\ err = NilError =>
             /\ response = Unmarshal(body, ZeroResponse, ResponseType(op)).val
             /\ response.XMLName = OwnRoot
        /\ (Answered /\ statusCode = 200 /\ body \in FaultBodies) => err.kind = "xml"
        /\ (Answered /\ statusCode = 200 /\ body \in SuccessBodies(OwnRoot))
             => err = NilError
        /\ (Answered /\ statusCode = 200 /\ \E r \in Roots \ {OwnRoot} : body \in SuccessBodies(r))
             => err.kind = "xml"
        /\ (Answered /\ statusCode # 200 /\ \E r \in Roots : body \in SuccessBodies(r))
             => err # NilError

C4_Witness ==
    /\ Answered
    /\ statusCode = 200
    /\ body \in FaultBodies
    /\ err.kind = "xml"

\* C9: a call issues at most one Get, exactly one once the URL is built; after
\* the Get, whatever its outcome, the call returns without another Get, and
\* a failure of the transport, of the status or of the decoding is returned
\* as an error
C9_SingleAttempt ==
    /\ [](gets <= 1)
    /\ [](pc \in {"got", "returned"} /\ err.kind # "url" => gets = 1)
    /\ [](pc = "returned" /\ err.kind = "url" => gets = 0)
    /\ [](pc = "returned" /\ gets = 1 /\ geterr => err.kind = "transport")
    /\ [](pc = "returned" /\ gets = 1 /\ ~geterr /\ statusCode # 200 => err # NilError)
    /\ [][pc = "get" => pc' = "got" /\ gets' = gets + 1]_vars
    /\ [][pc = "got" => pc' = "returned" /\ gets' = gets]_vars

C9_Witness == pc = "returned" /\ gets = 1 /\ geterr /\ err.kind = "transport"

-----------------------------------------------------------------------------
(* Properties of the URL builder (SpecURL)                                 *)

Built == pc = "built" /\ err = NilError

(* The reading of a query string, as url.ParseQuery and url.QueryUnescape do it *)

ishex(c) == (Ord[c] >= 48 /\ Ord[c] <= 57) \/ (Ord[c] >= 97 /\ Ord[c] <= 102)
            \/ (Ord[c] >= 65 /\ Ord[c] <= 70)

unhex(c) == IF Ord[c] >= 48 /\ Ord[c] <= 57 THEN Ord[c] - 48
            ELSE IF Ord[c] >= 97 /\ Ord[c] <= 102 THEN Ord[c] - 97 + 10
            ELSE Ord[c] - 65 + 10

\* QueryUnescape: [s |-> the unescaped string, err |-> an EscapeError was found]
RECURSIVE unescapeFrom(_, _)
unescapeFrom(s, i) ==
    IF i > Len(s) THEN [s |-> <<>>, err |-> FALSE]
    ELSE IF s[i] = "%"
         THEN IF i + 2 > Len(s) \/ ~ishex(s[i + 1]) \/ ~ishex(s[i + 2])
              THEN [s |-> <<>>, err |-> TRUE]
              ELSE LET r == unescapeFrom(s, i + 3)
                   IN  [s |-> <<Chr(unhex(s[i + 1]) * 16 + unhex(s[i + 2]))>> \o r.s,
                        err |-> r.err]
         ELSE LET r == unescapeFrom(s, i + 1)
              IN  [s |-> <<IF s[i] = "+" THEN " " ELSE s[i]>> \o r.s, err |-> r.err]

QueryUnescape(s) == unescapeFrom(s, 1)

\* url.ParseQuery: [m |-> the Values parsed, err |-> some pair was malformed]
RECURSIVE parseQuery(_, _)
parseQuery(r, query) ==
    IF query = <<>> THEN r
    ELSE LET c    == Cut(query, "&")
             kv   == Cut(c.before, "=")
             key  == QueryUnescape(kv.before)
             val  == QueryUnescape(kv.after)
         IN  IF IndexFrom(c.before, ";", 1) # 0
             THEN parseQuery([r EXCEPT !.err = TRUE], c.after)
             ELSE IF c.before = <<>> THEN parseQuery(r, c.after)
             ELSE IF key.err \/ val.err
                  THEN parseQuery([r EXCEPT !.err = TRUE], c.after)
                  ELSE parseQuery([r EXCEPT !.m = Add(r.m, key.s, val.s)], c.after)

ParseQuery(query) == parseQuery([m |-> EmptyValues, err |-> FALSE], query)

\* the query string of the URL built, parsed back
Query == ParseQuery(Cut(url, "?").after)

HasPrefix(s, prefix) == Len(s) >= Len(prefix) /\ SubSeq(s, 1, Len(prefix)) = prefix

\* the itemFilter keys of a parsed query
FilterKeys(m) == {k \in DOMAIN m : HasPrefix(k, <<"i", "t", "e", "m", "F", "i", "l", "t", "e", "r">>)}

\* the keys buildURL always writes
FixedKeys == {KeyOperationName, KeyServiceVersion, KeySecurityAppName, KeyGlobalID,
              KeyResponseDataFormat, KeyRestPayload, KeyKeywords, KeyEntriesPerPage}

\* C5: the URL of a keyword search holds one ListingType filter at index 0;
\* its values are AuctionWithBIN alone when binOnly is set, and
\* AuctionWithBIN, FixedPrice, Auction in this order when it is not; no
\* other itemFilter key appears
C5_ListingTypeFilter ==
    (Built /\ op = "buildSearchURL") =>
        LET m == Query.m
        IN  /\ ~Query.err
            /\ FilterKeys(m) =
                 IF binOnly
                 THEN {<<"i", "t", "e", "m", "F", "i", "l", "t", "e", "r", "(", "0", ")", ".", "n", "a", "m", "e">>, <<"i", "t", "e", "m", "F", "i", "l", "t", "e", "r", "(", "0", ")", ".", "v", "a", "l", "u", "e", "(", "0", ")">>}
                 ELSE {<<"i", "t", "e", "m", "F", "i", "l", "t", "e", "r", "(", "0", ")", ".", "n", "a", "m", "e">>, <<"i", "t", "e", "m", "F", "i", "l", "t", "e", "r", "(", "0", ")", ".", "v", "a", "l", "u", "e", "(", "0", ")">>,
                       <<"i", "t", "e", "m", "F", "i", "l", "t", "e", "r", "(", "0", ")", ".", "v", "a", "l", "u", "e", "(", "1", ")">>, <<"i", "t", "e", "m", "F", "i", "l", "t", "e", "r", "(", "0", ")", ".", "v", "a", "l", "u", "e", "(", "2", ")">>}
            /\ m[<<"i", "t", "e", "m", "F", "i", "l", "t", "e", "r", "(", "0", ")", ".", "n", "a", "m", "e">>] = << <<"L", "i", "s", "t", "i", "n", "g", "T", "y", "p", "e">> >>
            /\ m[<<"i", "t", "e", "m", "F", "i", "l", "t", "e", "r", "(", "0", ")", ".", "v", "a", "l", "u", "e", "(", "0", ")">>] = << <<"A", "u", "c", "t", "i", "o", "n", "W", "i", "t", "h", "B", "I", "N">> >>
            /\ ~binOnly => /\ m[<<"i", "t", "e", "m", "F", "i", "l", "t", "e", "r", "(", "0", ")", ".", "v", "a", "l", "u", "e", "(", "1", ")">>] = << <<"F", "i", "x", "e", "d", "P", "r", "i", "c", "e">> >>
                           /\ m[<<"i", "t", "e", "m", "F", "i", "l", "t", "e", "r", "(", "0", ")", ".", "v", "a", "l", "u", "e", "(", "2", ")">>] = << <<"A", "u", "c", "t", "i", "o", "n">> >>

C5_Witness ==
    /\ Built
    /\ op = "buildSearchURL"
    /\ binOnly
    /\ keywords = <<"&">>
    /\ DOMAIN Query.m = FixedKeys \cup {<<"i", "t", "e", "m", "F", "i", "l", "t", "e", "r", "(", "0", ")", ".", "n", "a", "m", "e">>, <<"i", "t", "e", "m", "F", "i", "l", "t", "e", "r", "(", "0", ")", ".", "v", "a", "l", "u", "e", "(", "0", ")">>}

\* C6: the URL of a completed-items search holds a Condition filter with the
\* values Used, Unspecified at itemFilter(0), a SoldItemsOnly filter with the
\* value true at itemFilter(1), and the operation name findCompletedItems
C6_SoldFilters ==
    (Built /\ op = "buildSoldURL") =>
        LET m == Query.m
        IN  /\ ~Query.err
            /\ FilterKeys(m) =
                 {<<"i", "t", "e", "m", "F", "i", "l", "t", "e", "r", "(", "0", ")", ".", "n", "a", "m", "e">>, <<"i", "t", "e", "m", "F", "i", "l", "t", "e", "r", "(", "0", ")", ".", "v", "a", "l", "u", "e", "(", "0", ")">>,
                  <<"i", "t", "e", "m", "F", "i", "l", "t", "e", "r", "(", "0", ")", ".", "v", "a", "l", "u", "e", "(", "1", ")">>, <<"i", "t", "e", "m", "F", "i", "l", "t", "e", "r", "(", "1", ")", ".", "n", "a", "m", "e">>,
                  <<"i", "t", "e", "m", "F", "i", "l", "t", "e", "r", "(", "1", ")", ".", "v", "a", "l", "u", "e", "(", "0", ")">>}
            /\ m[<<"i", "t", "e", "m", "F", "i", "l", "t", "e", "r", "(", "0", ")", ".", "n", "a", "m", "e">>] = << <<"C", "o", "n", "d", "i", "t", "i", "o", "n">> >>
            /\ m[<<"i", "t", "e", "m", "F", "i", "l", "t", "e", "r", "(", "0", ")", ".", "v", "a", "l", "u", "e", "(", "0", ")">>] = << <<"U", "s", "e", "d">> >>
            /\ m[<<"i", "t", "e", "m", "F", "i", "l", "t", "e", "r", "(", "0", ")", ".", "v", "a", "l", "u", "e", "(", "1", ")">>] = << <<"U", "n", "s", "p", "e", "c", "i", "f", "i", "e", "d">> >>
            /\ m[<<"i", "t", "e", "m", "F", "i", "l", "t", "e", "r", "(", "1", ")", ".", "n", "a", "m", "e">>] = << <<"S", "o", "l", "d", "I", "t", "e", "m", "s", "O", "n", "l", "y">> >>
            /\ m[<<"i", "t", "e", "m", "F", "i", "l", "t", "e", "r", "(", "1", ")", ".", "v", "a", "l", "u", "e", "(", "0", ")">>] = << <<"t", "r", "u", "e">> >>
            /\ m[<<"O", "P", "E", "R", "A", "T", "I", "O", "N", "-", "N", "A", "M", "E">>] = << <<"f", "i", "n", "d", "C", "o", "m", "p", "l", "e", "t", "e", "d", "I", "t", "e", "m", "s">> >>

C6_Witness ==
    /\ Built
    /\ op = "buildSoldURL"
    /\ keywords = <<"=">>
    /\ Query.m[<<"i", "t", "e", "m", "F", "i", "l", "t", "e", "r", "(", "1", ")", ".", "n", "a", "m", "e">>] = << <<"S", "o", "l", "d", "I", "t", "e", "m", "s", "O", "n", "l", "y">> >>

\* the filter set the call supplied to buildURL
Supplied == IF op = "buildSoldURL" THEN SoldFilters ELSE SearchFilters(binOnly)

\* the pairs of a parsed query that are not fixed parameters
Recovered == [k \in DOMAIN Query.m \ FixedKeys |-> Query.m[k]]

\* C7: parsing the query string of the URL built recovers the filter pairs
\* supplied, no more and no fewer, the values of each filter in their order
C7_RoundTrip == Built => (~Query.err /\ Recovered = Supplied)

C7_Witness ==
    /\ Built
    /\ op = "buildSearchURL"
    /\ ~binOnly
    /\ Cardinality(DOMAIN Recovered) = 4

\* the integer a decimal string stands for
RECURSIVE ParseNat(_, _, _)
ParseNat(s, i, acc) ==
    IF i > Len(s) THEN acc ELSE ParseNat(s, i + 1, acc * 10 + (Ord[s[i]] - 48))

IsDecimal(s, n) ==
    LET digits == IF n < 0 THEN Tail(s) ELSE s
    IN  /\ Len(s) > 0
        /\ n < 0 <=> s[1] = "-"
        /\ Len(digits) > 0
        /\ \A i \in 1..Len(digits) : Ord[digits[i]] >= 48 /\ Ord[digits[i]] <= 57
        /\ Len(digits) > 1 => digits[1] # "0"
        /\ ParseNat(digits, 1, 0) = (IF n < 0 THEN 0 - n ELSE n)

\* the raw pairs of a query string whose key is key once unescaped
RawPairs(query, key) ==
    LET n == Cardinality({i \in 1..Len(query) : query[i] = "&"}) + 1
        starts == {1} \cup {i + 1 : i \in {j \in 1..Len(query) : query[j] = "&"}}
    IN  {i \in starts :
           LET amp == IndexFrom(query, "&", i)
               seg == SubSeq(query, i, IF amp = 0 THEN Len(query) ELSE amp - 1)
           IN  QueryUnescape(Cut(seg, "=").before).s = key}

\* C8: the URL built holds exactly one keywords parameter, whose decoded
\* value is the keyword string, and exactly one paginationInput.entriesPerPage
\* parameter, whose value is the page size in decimal
C8_KeywordsAndPageSize ==
    Built =>
        /\ ~Query.err
        /\ Query.m[KeyKeywords] = <<keywords>>
        /\ Cardinality(RawPairs(Cut(url, "?").after, KeyKeywords)) = 1
        /\ Len(Query.m[KeyEntriesPerPage]) = 1
        /\ Cardinality(RawPairs(Cut(url, "?").after, KeyEntriesPerPage)) = 1
        /\ IsDecimal(Query.m[KeyEntriesPerPage][1], entriesPerPage)

C8_Witness ==
    /\ Built
    /\ keywords = <<"&">>
    /\ globalID = <<"&", "k", "e", "y", "w", "o", "r", "d", "s", "=", "k">>
    /\ entriesPerPage < 0
    /\ Query.m[KeyKeywords] = << <<"&">> >>

\* C10: the URL built does not depend on the order in which the range over
\* the filter set visits its keys: it is the URL built when they are visited
\* in sorted order
C10_Deterministic ==
    Built =>
        url = buildURL(ApplicationID, globalID, keywords,
                       IF op = "buildSoldURL" THEN findCompletedItems
                       ELSE findItemsByKeywords,
                       entriesPerPage, Supplied, SortKeys(DOMAIN Supplied)).url

C10_Witness ==
    /\ Built
    /\ op = "buildSoldURL"
    /\ Cardinality(RangeOrders(Supplied)) > 1
    /\ HasPrefix(url, Endpoint \o <<"?">>)

====
